---- MODULE Spec2Model ----
(***************************************************************************)
(* Model of the image generation core of DM_Agent:                         *)
(*   src/image_gen/generator.py  ImageGenerator                            *)
(*   src/core/settings.py        get_image_size_tuple, get_device          *)
(*                                                                         *)
(* One ImageGenerator instance is driven by one thread of control: the     *)
(* coroutines of generator.py contain no suspension point of their own     *)
(* (the text service client and the pipeline are called synchronously), so *)
(* a call runs from entry to return or raise before the next one starts.   *)
(* generate is modelled statement by statement (pc), the other operations  *)
(* as one step each.                                                       *)
(*                                                                         *)
(* Text is modelled as a sequence of chunks: a chunk is either the         *)
(* whitespace chunk " " or a run of non-whitespace characters.  Size       *)
(* strings are sequences of single characters.                             *)
(***************************************************************************)
EXTENDS Integers, Sequences, FiniteSets, TLC

\* ------------------------------------------------------------------ bounds
MaxCalls == 3          \* top-level calls made on the generator in one run
MaxSizeLen == 4        \* length of a size string
MaxRespLen == 1        \* chunks in a text-service response
MaxBatch == 2          \* prompts in one generate_batch call
MaxListRequests == 1   \* list_tools requests that wait at a time

\* ------------------------------------------------------- input alphabets
SizeChars == {"0", "1", "x", "-"}
SizeStrings == UNION {[1..n -> SizeChars] : n \in 0..MaxSizeLen}
\* the sizes used where the size is not the subject: none given, a plain
\* one, a zero width, a negative width, no number at all
SizeSamples ==
    {<<>>, <<"1", "x", "1">>, <<"0", "x", "1">>, <<"-", "1", "x", "1">>, <<"x">>}

Whitespace == {" "}
PromptTexts == {<<>>, <<"robot">>}
StyleTexts == {<<>>, <<"cartoon">>}
StepsValues == {20, 30}
RespChunks == {"lit", " "}
ServiceTexts == UNION {[1..n -> RespChunks] : n \in 0..MaxRespLen}

\* --------------------------------------------------- settings.py helpers
Digits == <<"0", "1", "2", "3", "4", "5", "6", "7", "8", "9">>

IsDigit(c) == \E i \in 1..10 : Digits[i] = c

DigitValue(c) == (CHOOSE i \in 1..10 : Digits[i] = c) - 1

\* settings.default_image_size
default_image_size == <<"1", "0", "2", "4", "x", "1", "0", "2", "4">>

\* str.split('x'): the parts between the separators, empty parts included
RECURSIVE split(_)
split(s) ==
    IF \A i \in 1..Len(s) : s[i] # "x"
    THEN <<s>>
    ELSE LET i == CHOOSE k \in 1..Len(s) :
                      s[k] = "x" /\ \A j \in 1..(k - 1) : s[j] # "x"
         IN  <<SubSeq(s, 1, i - 1)>> \o split(SubSeq(s, i + 1, Len(s)))

\* value of a non-empty run of decimal digits
RECURSIVE digits_value(_)
digits_value(ds) ==
    IF Len(ds) = 0 THEN 0
    ELSE 10 * digits_value(SubSeq(ds, 1, Len(ds) - 1)) + DigitValue(ds[Len(ds)])

\* int(part) accepts an optional sign followed by at least one digit
int_ok(part) ==
    LET body == IF Len(part) > 0 /\ part[1] = "-" THEN Tail(part) ELSE part
    IN  Len(body) > 0 /\ \A i \in 1..Len(body) : IsDigit(body[i])

int_value(part) ==
    IF part[1] = "-" THEN 0 - digits_value(Tail(part)) ELSE digits_value(part)

\* get_image_size_tuple that unpacks the first two parts and ignores the rest
get_image_size_tuple_first_two(size_str) ==
    LET s == IF size_str = <<>> THEN default_image_size ELSE size_str
        parts == split(s)
    IN  IF Len(parts) >= 2 /\ int_ok(parts[1]) /\ int_ok(parts[2])
        THEN [raised |-> FALSE, width |-> int_value(parts[1]),
              height |-> int_value(parts[2])]
        ELSE [raised |-> TRUE, width |-> 0, height |-> 0]

\* get_image_size_tuple: raised is the ValueError of int() or of the unpacking
get_image_size_tuple(size_str) ==
    LET s == IF size_str = <<>> THEN default_image_size ELSE size_str
        parts == split(s)
    IN  IF Len(parts) = 2 /\ int_ok(parts[1]) /\ int_ok(parts[2])
        THEN [raised |-> FALSE, width |-> int_value(parts[1]),
              height |-> int_value(parts[2])]
        ELSE [raised |-> TRUE, width |-> 0, height |-> 0]

\* f"{n}" for an integer
RECURSIVE nat_str(_)
nat_str(n) ==
    IF n < 10 THEN <<Digits[n + 1]>>
    ELSE nat_str(n \div 10) \o <<Digits[(n % 10) + 1]>>

int_str(n) == IF n < 0 THEN <<"-">> \o nat_str(0 - n) ELSE nat_str(n)

\* f"{width}x{height}"
size_str_of(width, height) == int_str(width) \o <<"x">> \o int_str(height)

\* ------------------------------------------------ enhance_prompt helpers
\* str.strip(): drops leading and trailing whitespace
RECURSIVE lstrip(_)
lstrip(t) ==
    IF Len(t) > 0 /\ t[1] \in Whitespace THEN lstrip(Tail(t)) ELSE t

RECURSIVE rstrip(_)
rstrip(t) ==
    IF Len(t) > 0 /\ t[Len(t)] \in Whitespace
    THEN rstrip(SubSeq(t, 1, Len(t) - 1)) ELSE t

strip(t) == rstrip(lstrip(t))

\* the fixed qualifiers of the fallback prompt
Qualifiers == <<", high quality, detailed, professional photography">>

\* the ways ollama_client.generate or reading response['response'] can fail
ServiceFailures == {"timeout", "malformed", "unavailable"}

\* outcomes of ollama_client.generate and of reading response['response']
ServiceOutcomes ==
    [kind : {"ok"}, text : ServiceTexts]
        \cup [kind : ServiceFailures, text : {<<>>}]

\* enhance_prompt whose except clause misses the malformed response
enhance_prompt_narrow_except(basic_prompt, style_preference, svc) ==
    CASE svc.kind = "ok" -> [raised |-> FALSE, text |-> strip(svc.text)]
      [] svc.kind = "malformed" -> [raised |-> TRUE, text |-> <<>>]
      [] OTHER -> [raised |-> FALSE, text |-> basic_prompt \o Qualifiers]

\* enhance_prompt: the stripped response, or the fallback on any exception
\* of the try block; raised tells whether an exception leaves the method
enhance_prompt(basic_prompt, style_preference, svc) ==
    IF svc.kind = "ok"
    THEN [raised |-> FALSE, text |-> strip(svc.text)]
    ELSE [raised |-> FALSE, text |-> basic_prompt \o Qualifiers]

\* a style that is appended without the word "style"
style_suffix_no_word(prompt, style) == prompt \o <<", ">> \o style

\* the elif branch of generate: f"{prompt}, {style} style"
style_suffix(prompt, style) == prompt \o <<", ">> \o style \o <<" style">>

\* ------------------------------------------------------------- the state
VARIABLES
    pipeline,             \* self.pipeline: "None" or the stage the load reached
    device,               \* self.device, fixed by get_device() in __init__
    pc,                   \* position of the call in flight, "idle" between calls
    req,                  \* arguments of the call in flight
    prompt,               \* the local variable prompt of generate
    dims,                 \* the local variables width, height of generate
    call,                 \* what the call in flight has done so far
    outcome,              \* how the call in flight ended, once pc = "done"
    files,                \* number of images written under settings.output_path
    loads_since_release,  \* from_pretrained completions since the last unload_model
    calls,                \* number of top-level calls started
    batch,                \* the loop of the generate_batch call in flight
    dispatch,             \* the handle_call_tool call in flight
    inbox,                \* tool calls received whose handler has not started
    generating,           \* generate calls of handlers that have not ended yet
    list_requests         \* list_tools requests received and not yet answered

vars == <<pipeline, device, pc, req, prompt, dims, call, outcome, files,
          loads_since_release, calls, batch, dispatch, inbox, generating,
          list_requests>>

\* the state of the server around the generator
srv == <<dispatch, inbox, generating, list_requests>>

Devices == {"cuda", "mps", "cpu"}

\* torch.cuda.is_available()
cuda_is_available == device = "cuda"

Loaded == pipeline # "None"

NoReq == [prompt |-> <<>>, style |-> <<>>, size |-> <<>>, steps |-> 0,
          guidance_scale |-> 0, enhance_prompt |-> FALSE]

NoResult == [image_path |-> 0, image_data |-> <<>>, prompt |-> <<>>,
             size |-> <<>>, steps |-> 0, guidance_scale |-> 0]

NoArgs == [prompt |-> <<>>, width |-> 0, height |-> 0, steps |-> 0,
           guidance_scale |-> 0]

\* bookkeeping of one call: the handle it found (entry), and how often it
\* reached each collaborator
CallRecord(o, p) ==
    [op |-> o, entry |-> p, loads |-> 0, enhancer_calls |-> 0,
     service |-> "none", runs |-> 0, run_result |-> "none",
     run_args |-> NoArgs, clears |-> 0, saves |-> 0,
     enhancer_args |-> <<>>, enhancer_out |-> <<>>, failed |-> "none"]

NewCall(o) == CallRecord(o, pipeline)

Returned(result, text) ==
    [kind |-> "return", exc |-> "none", result |-> result, text |-> text,
     results |-> <<>>]

ReturnedList(results) ==
    [kind |-> "return", exc |-> "none", result |-> NoResult, text |-> <<>>,
     results |-> results]

Raised(exc) ==
    [kind |-> "raise", exc |-> exc, result |-> NoResult, text |-> <<>>,
     results |-> <<>>]

Pending ==
    [kind |-> "pending", exc |-> "none", result |-> NoResult, text |-> <<>>,
     results |-> <<>>]

\* generate_batch: the prompts, the index of the item in progress, the
\* results list, and the empty_cache calls of the loop itself
NoBatch ==
    [active |-> FALSE, prompts |-> <<>>, i |-> 0, results |-> <<>>,
     clears |-> 0]

\* handle_call_tool: the tool name and the arguments dict, how far the
\* handler is ("generate" while it awaits image_gen.generate), the
\* collaborators it has called, and what it handed back: the list of content
\* parts it returned or the exception it raised
NoDispatch ==
    [name |-> "none", args |-> <<>>, phase |-> "none", reached |-> {},
     kind |-> "pending", exc |-> "none", response |-> <<>>]

Init ==
    /\ pipeline = "None"
    /\ device \in Devices
    /\ pc = "idle"
    /\ req = NoReq
    /\ prompt = <<>>
    /\ dims = <<0, 0>>
    /\ call = CallRecord("none", "None")
    /\ outcome = Pending
    /\ files = 0
    /\ loads_since_release = 0
    /\ calls = 0
    /\ batch = NoBatch
    /\ dispatch = NoDispatch
    /\ inbox = 0
    /\ generating = 0
    /\ list_requests = 0

CanCall == pc = "idle" /\ calls < MaxCalls

\* the caller has the result or the exception; the frame is gone
Return ==
    /\ pc = "done"
    /\ dispatch.phase # "generate"
    /\ dispatch' = NoDispatch
    /\ UNCHANGED <<inbox, generating, list_requests>>
    /\ pc' = "idle"
    /\ req' = NoReq
    /\ prompt' = <<>>
    /\ dims' = <<0, 0>>
    /\ call' = CallRecord("none", "None")
    /\ outcome' = Pending
    /\ batch' = NoBatch
    /\ UNCHANGED <<pipeline, device, files, loads_since_release, calls>>

\* ------------------------------------------------------------ load_model
\* how far the load gets: from_pretrained, the enable_* options, .to(device)
LoadOutcomes == {"ok", "fetch_fails", "configure_fails", "to_device_fails"}

\* load_model without the early return for a handle that is already set
load_model_reload(p, out) ==
    CASE out = "fetch_fails" ->
           [pipeline |-> p, fetched |-> FALSE, raised |-> TRUE]
      [] out = "configure_fails" ->
           [pipeline |-> "fetched", fetched |-> TRUE, raised |-> TRUE]
      [] out = "to_device_fails" ->
           [pipeline |-> "configured", fetched |-> TRUE, raised |-> TRUE]
      [] OTHER ->
           [pipeline |-> "on_device", fetched |-> TRUE, raised |-> FALSE]

\* load_model on handle p: the handle afterwards, whether from_pretrained
\* returned a pipeline, and whether an exception left the method
load_model(p, out) ==
    IF p # "None"
    THEN [pipeline |-> p, fetched |-> FALSE, raised |-> FALSE]
    ELSE CASE out = "fetch_fails" ->
                [pipeline |-> "None", fetched |-> FALSE, raised |-> TRUE]
           [] out = "configure_fails" ->
                [pipeline |-> "fetched", fetched |-> TRUE, raised |-> TRUE]
           [] out = "to_device_fails" ->
                [pipeline |-> "configured", fetched |-> TRUE, raised |-> TRUE]
           [] OTHER ->
                [pipeline |-> "on_device", fetched |-> TRUE, raised |-> FALSE]

CountLoad(c, r) ==
    [c EXCEPT !.loads = @ + (IF r.fetched THEN 1 ELSE 0)]

\* a direct call of load_model
LoadModelCall ==
    /\ CanCall
    /\ \E out \in LoadOutcomes :
          LET r == load_model(pipeline, out) IN
          /\ pipeline' = r.pipeline
          /\ loads_since_release' =
                 loads_since_release + (IF r.fetched THEN 1 ELSE 0)
          /\ call' = CountLoad(NewCall("load_model"), r)
          /\ outcome' = IF r.raised THEN Raised("LoadError")
                        ELSE Returned(NoResult, <<>>)
    /\ pc' = "done"
    /\ calls' = calls + 1
    /\ UNCHANGED <<device, req, prompt, dims, files, batch>>
    /\ UNCHANGED srv

\* ---------------------------------------------------------- unload_model
\* unload_model with empty_cache outside the test for a loaded pipeline
unload_model_always_clears(p, cuda) ==
    [pipeline |-> "None", clears |-> IF cuda THEN 1 ELSE 0]

\* the handle and the number of empty_cache calls after unload_model
unload_model(p, cuda) ==
    IF p # "None"
    THEN [pipeline |-> "None", clears |-> IF cuda THEN 1 ELSE 0]
    ELSE [pipeline |-> p, clears |-> 0]

UnloadModelCall ==
    /\ CanCall
    /\ LET r == unload_model(pipeline, cuda_is_available) IN
          /\ pipeline' = r.pipeline
          /\ call' = [NewCall("unload_model") EXCEPT !.clears = r.clears]
    /\ loads_since_release' = 0
    /\ outcome' = Returned(NoResult, <<>>)
    /\ pc' = "done"
    /\ calls' = calls + 1
    /\ UNCHANGED <<device, req, prompt, dims, files, batch>>
    /\ UNCHANGED srv

\* -------------------------------------------------------- enhance_prompt
\* a direct call of enhance_prompt
EnhancePromptCall ==
    /\ CanCall
    /\ \E p \in PromptTexts, st \in StyleTexts, svc \in ServiceOutcomes :
          /\ req' = [NoReq EXCEPT !.prompt = p, !.style = st]
          /\ LET e == enhance_prompt(p, st, svc) IN
                /\ call' = [NewCall("enhance_prompt") EXCEPT
                                !.enhancer_calls = 1, !.service = svc.kind,
                                !.enhancer_args = <<p, st>>,
                                !.enhancer_out = e.text]
                /\ outcome' = IF e.raised THEN Raised("Exception")
                              ELSE Returned(NoResult, e.text)
    /\ pc' = "done"
    /\ calls' = calls + 1
    /\ UNCHANGED <<pipeline, device, prompt, dims, files,
                   loads_since_release, batch>>
    /\ UNCHANGED srv

\* -------------------------------------------------------------- generate
GenerateRequests ==
    [prompt : PromptTexts, style : StyleTexts, size : SizeSamples,
     steps : StepsValues, guidance_scale : {7}, enhance_prompt : BOOLEAN]

\* the requests of the size study: every size string, the rest fixed
SizedRequests ==
    [prompt : {<<"robot">>}, style : {<<>>}, size : SizeStrings,
     steps : {30}, guidance_scale : {7}, enhance_prompt : BOOLEAN]

\* entry of generate(prompt, style, size, steps, guidance_scale, enhance_prompt)
GenerateEntry(r) ==
    /\ req' = r
    /\ prompt' = r.prompt
    /\ call' = NewCall("generate")
    /\ outcome' = Pending
    /\ dims' = <<0, 0>>
    /\ pc' = "load"
    /\ UNCHANGED <<pipeline, device, files, loads_since_release>>

GenerateCall ==
    /\ CanCall
    /\ \E r \in GenerateRequests : GenerateEntry(r)
    /\ calls' = calls + 1
    /\ UNCHANGED batch
    /\ UNCHANGED srv

\* the first call on a fresh generator, with any size string
GenerateSized ==
    /\ pc = "idle"
    /\ calls = 0
    /\ \E r \in SizedRequests : GenerateEntry(r)
    /\ calls' = calls + 1
    /\ UNCHANGED batch
    /\ UNCHANGED srv

\* self.load_model()
GenerateLoad ==
    /\ pc = "load"
    /\ \E out \in LoadOutcomes :
          LET r == load_model(pipeline, out) IN
          /\ pipeline' = r.pipeline
          /\ loads_since_release' =
                 loads_since_release + (IF r.fetched THEN 1 ELSE 0)
          /\ call' = CountLoad(call, r)
          /\ IF r.raised
             THEN pc' = "done" /\ outcome' = Raised("LoadError")
             ELSE pc' = "prompt" /\ UNCHANGED outcome
    /\ UNCHANGED <<device, req, prompt, dims, files, calls, batch>>
    /\ UNCHANGED srv

\* an await of the enhancer during which an unload_model call runs
GenerateEnhance_unload_between ==
    /\ pc = "prompt"
    /\ req.enhance_prompt
    /\ \E svc \in ServiceOutcomes :
          LET e == enhance_prompt(prompt, req.style, svc) IN
          /\ call' = [call EXCEPT !.enhancer_calls = @ + 1,
                                  !.service = svc.kind,
                                  !.enhancer_args = <<prompt, req.style>>,
                                  !.enhancer_out = e.text]
          /\ pc' = "parse" /\ prompt' = e.text /\ UNCHANGED outcome
    /\ pipeline' = unload_model(pipeline, cuda_is_available).pipeline
    /\ loads_since_release' = 0
    /\ UNCHANGED <<device, req, dims, files, calls, batch>>
    /\ UNCHANGED srv

\* an await of the enhancer that gives the event loop to the next handler
GenerateEnhance_yields ==
    /\ pc = "prompt"
    /\ req.enhance_prompt
    /\ pc' = "idle"
    /\ UNCHANGED <<pipeline, device, req, prompt, dims, call, outcome, files,
                   loads_since_release, calls, batch>>
    /\ UNCHANGED srv

\* if enhance_prompt: prompt = await self.enhance_prompt(prompt, style)
GenerateEnhance ==
    /\ pc = "prompt"
    /\ req.enhance_prompt
    /\ \E svc \in ServiceOutcomes :
          LET e == enhance_prompt(prompt, req.style, svc) IN
          /\ call' = [call EXCEPT !.enhancer_calls = @ + 1,
                                  !.service = svc.kind,
                                  !.enhancer_args = <<prompt, req.style>>,
                                  !.enhancer_out = e.text]
          /\ IF e.raised
             THEN pc' = "done" /\ outcome' = Raised("Exception")
                  /\ UNCHANGED prompt
             ELSE pc' = "parse" /\ prompt' = e.text /\ UNCHANGED outcome
    /\ UNCHANGED <<pipeline, device, req, dims, files,
                   loads_since_release, calls, batch>>
    /\ UNCHANGED srv

\* elif style: prompt = f"{prompt}, {style} style"; otherwise prompt is kept
GenerateStyle ==
    /\ pc = "prompt"
    /\ ~req.enhance_prompt
    /\ prompt' = IF req.style # <<>> THEN style_suffix(prompt, req.style)
                 ELSE prompt
    /\ pc' = "parse"
    /\ UNCHANGED <<pipeline, device, req, dims, call, outcome, files,
                   loads_since_release, calls, batch>>
    /\ UNCHANGED srv

\* a batch loop that skips an item whose size does not parse
GenerateParse_batch_skips ==
    /\ pc = "parse"
    /\ LET r == get_image_size_tuple(req.size) IN
          IF r.raised /\ batch.active /\ batch.i < Len(batch.prompts)
          THEN /\ batch' = [batch EXCEPT !.i = @ + 1]
               /\ GenerateEntry([req EXCEPT !.prompt = batch.prompts[batch.i + 1]])
               /\ UNCHANGED calls
          ELSE /\ IF r.raised
                  THEN pc' = "done" /\ outcome' = Raised("ValueError")
                       /\ UNCHANGED dims
                  ELSE pc' = "run" /\ dims' = <<r.width, r.height>>
                       /\ UNCHANGED outcome
               /\ UNCHANGED <<pipeline, device, req, prompt, call, files,
                              loads_since_release, calls, batch>>
    /\ UNCHANGED srv

\* width, height = get_image_size_tuple(size)
GenerateParse ==
    /\ pc = "parse"
    /\ LET r == get_image_size_tuple(req.size) IN
          IF r.raised
          THEN pc' = "done" /\ outcome' = Raised("ValueError")
               /\ UNCHANGED dims
          ELSE pc' = "run" /\ dims' = <<r.width, r.height>>
               /\ UNCHANGED outcome
    /\ UNCHANGED <<pipeline, device, req, prompt, call, files,
                   loads_since_release, calls, batch>>
    /\ UNCHANGED srv

\* what the pipeline call can do; a handle that is None cannot be called
RunOutcomes ==
    IF pipeline = "None" THEN {"Exception"}
    ELSE {"ok", "OutOfMemoryError", "Exception"}

RunArgs ==
    [prompt |-> prompt, width |-> dims[1], height |-> dims[2],
     steps |-> req.steps, guidance_scale |-> req.guidance_scale]

\* image = self.pipeline(...).images[0] returns an image
GenerateRunOk ==
    /\ pc = "run"
    /\ "ok" \in RunOutcomes
    /\ call' = [call EXCEPT !.runs = @ + 1, !.run_result = "ok",
                            !.run_args = RunArgs]
    /\ pc' = "save"
    /\ UNCHANGED <<pipeline, device, req, prompt, dims, outcome, files,
                   loads_since_release, calls, batch>>
    /\ UNCHANGED srv

\* an out-of-memory handler that also drops the pipeline
GenerateRunOOM_unloads ==
    /\ pc = "run"
    /\ "OutOfMemoryError" \in RunOutcomes
    /\ call' = [call EXCEPT !.runs = @ + 1, !.run_result = "OutOfMemoryError",
                            !.run_args = RunArgs, !.clears = @ + 1]
    /\ pipeline' = "None"
    /\ outcome' = Raised("OutOfMemoryError")
    /\ pc' = "done"
    /\ UNCHANGED <<device, req, prompt, dims, files,
                   loads_since_release, calls, batch>>
    /\ UNCHANGED srv

\* an out-of-memory handler that re-raises without empty_cache
GenerateRunOOM_no_clear ==
    /\ pc = "run"
    /\ "OutOfMemoryError" \in RunOutcomes
    /\ call' = [call EXCEPT !.runs = @ + 1, !.run_result = "OutOfMemoryError",
                            !.run_args = RunArgs]
    /\ outcome' = Raised("OutOfMemoryError")
    /\ pc' = "done"
    /\ UNCHANGED <<pipeline, device, req, prompt, dims, files,
                   loads_since_release, calls, batch>>
    /\ UNCHANGED srv

\* except torch.cuda.OutOfMemoryError: torch.cuda.empty_cache(); raise
GenerateRunOOM ==
    /\ pc = "run"
    /\ "OutOfMemoryError" \in RunOutcomes
    /\ call' = [call EXCEPT !.runs = @ + 1, !.run_result = "OutOfMemoryError",
                            !.run_args = RunArgs, !.clears = @ + 1]
    /\ outcome' = Raised("OutOfMemoryError")
    /\ pc' = "done"
    /\ UNCHANGED <<pipeline, device, req, prompt, dims, files,
                   loads_since_release, calls, batch>>
    /\ UNCHANGED srv

\* a handler that runs the pipeline again instead of re-raising
GenerateRunFail_retry ==
    /\ pc = "run"
    /\ "Exception" \in RunOutcomes
    /\ call' = [call EXCEPT !.runs = @ + 1, !.run_result = "Exception",
                            !.run_args = RunArgs]
    /\ pc' = "run"
    /\ UNCHANGED <<pipeline, device, req, prompt, dims, outcome, files,
                   loads_since_release, calls, batch>>
    /\ UNCHANGED srv

\* except Exception as e: raise
GenerateRunFail ==
    /\ pc = "run"
    /\ "Exception" \in RunOutcomes
    /\ call' = [call EXCEPT !.runs = @ + 1, !.run_result = "Exception",
                            !.run_args = RunArgs]
    /\ outcome' = Raised("Exception")
    /\ pc' = "done"
    /\ UNCHANGED <<pipeline, device, req, prompt, dims, files,
                   loads_since_release, calls, batch>>
    /\ UNCHANGED srv

\* image.save(image_path): the file is written, or the write raises
GenerateSave ==
    /\ pc = "save"
    /\ \/ /\ files' = files + 1
          /\ call' = [call EXCEPT !.saves = @ + 1]
          /\ pc' = "encode"
          /\ UNCHANGED outcome
       \/ /\ call' = [call EXCEPT !.failed = "save"]
          /\ outcome' = Raised("Exception")
          /\ pc' = "done"
          /\ UNCHANGED files
    /\ UNCHANGED <<pipeline, device, req, prompt, dims,
                   loads_since_release, calls, batch>>
    /\ UNCHANGED srv

\* a result that repeats the size string of the request
Result_requested_size ==
    [image_path |-> files, image_data |-> <<"PNG">>, prompt |-> prompt,
     size |-> req.size, steps |-> req.steps,
     guidance_scale |-> req.guidance_scale]

\* the dict returned by generate
Result ==
    [image_path |-> files, image_data |-> <<"PNG">>, prompt |-> prompt,
     size |-> size_str_of(dims[1], dims[2]), steps |-> req.steps,
     guidance_scale |-> req.guidance_scale]

\* an encoding failure that is swallowed: the dict is returned without the
\* image data
GenerateEncode_swallow ==
    /\ pc = "encode"
    /\ \/ /\ outcome' = Returned(Result, <<>>)
          /\ UNCHANGED call
       \/ /\ call' = [call EXCEPT !.failed = "encode"]
          /\ outcome' = Returned([Result EXCEPT !.image_data = <<>>], <<>>)
    /\ pc' = IF batch.active THEN "append" ELSE "done"
    /\ UNCHANGED <<pipeline, device, req, prompt, dims, files,
                   loads_since_release, calls, batch>>
    /\ UNCHANGED srv

\* image.save(img_bytes, format='PNG') and the return, or the encoding raises
GenerateEncode ==
    /\ pc = "encode"
    /\ \/ /\ outcome' = Returned(Result, <<>>)
          /\ pc' = IF batch.active THEN "append" ELSE "done"
          /\ UNCHANGED call
       \/ /\ call' = [call EXCEPT !.failed = "encode"]
          /\ outcome' = Raised("Exception")
          /\ pc' = "done"
    /\ UNCHANGED <<pipeline, device, req, prompt, dims, files,
                   loads_since_release, calls, batch>>
    /\ UNCHANGED srv

\* -------------------------------------------------------- generate_batch
BatchPrompts == UNION {[1..n -> PromptTexts] : n \in 0..MaxBatch}

\* **kwargs, passed on to every generate call: a size that parses or one
\* that does not, with or without enhancement; style and steps are left at
\* their defaults
BatchKwargs ==
    [prompt : {<<>>}, style : {<<>>}, size : {<<"1", "x", "1">>, <<"x">>},
     steps : {30}, guidance_scale : {7}, enhance_prompt : BOOLEAN]

\* entry of generate_batch(prompts, **kwargs): results = [], and the first
\* iteration calls generate; with no prompt the empty list is returned
GenerateBatchCall ==
    /\ CanCall
    /\ \E ps \in BatchPrompts, kw \in BatchKwargs :
          /\ IF ps = <<>>
             THEN /\ batch' = [NoBatch EXCEPT !.active = TRUE]
                  /\ call' = NewCall("generate_batch")
                  /\ outcome' = ReturnedList(<<>>)
                  /\ pc' = "done"
                  /\ UNCHANGED <<req, prompt, dims, pipeline, device, files,
                                 loads_since_release>>
             ELSE /\ batch' = [NoBatch EXCEPT !.active = TRUE,
                                              !.prompts = ps, !.i = 1]
                  /\ GenerateEntry([kw EXCEPT !.prompt = ps[1]])
    /\ calls' = calls + 1
    /\ UNCHANGED srv

\* a loop that puts each result at the front of the list
BatchAppend_prepend ==
    /\ pc = "append"
    /\ LET rs == <<outcome.result>> \o batch.results
           b == [batch EXCEPT !.results = rs,
                              !.clears = @ + (IF cuda_is_available THEN 1 ELSE 0)]
       IN  IF batch.i < Len(batch.prompts)
           THEN /\ batch' = [b EXCEPT !.i = @ + 1]
                /\ GenerateEntry([req EXCEPT !.prompt = batch.prompts[batch.i + 1]])
           ELSE /\ batch' = b
                /\ outcome' = ReturnedList(rs)
                /\ pc' = "done"
                /\ UNCHANGED <<req, prompt, dims, call, pipeline, device,
                               files, loads_since_release>>
    /\ UNCHANGED calls
    /\ UNCHANGED srv

\* results.append(result); empty_cache() if cuda is available; then the next
\* iteration calls generate, or the loop is over and results is returned
BatchAppend ==
    /\ pc = "append"
    /\ LET rs == Append(batch.results, outcome.result)
           b == [batch EXCEPT !.results = rs,
                              !.clears = @ + (IF cuda_is_available THEN 1 ELSE 0)]
       IN  IF batch.i < Len(batch.prompts)
           THEN /\ batch' = [b EXCEPT !.i = @ + 1]
                /\ GenerateEntry([req EXCEPT !.prompt = batch.prompts[batch.i + 1]])
           ELSE /\ batch' = b
                /\ outcome' = ReturnedList(rs)
                /\ pc' = "done"
                /\ UNCHANGED <<req, prompt, dims, call, pipeline, device,
                               files, loads_since_release>>
    /\ UNCHANGED calls
    /\ UNCHANGED srv

\* ------------------------------------------------------ the tool dispatch
\* a value of the arguments dict, by its JSON type; Absent stands for a key
\* that is not in the dict
Absent == [type |-> "absent", text |-> <<>>, num |-> 0]

StrArg(t) == [type |-> "string", text |-> t, num |-> 0]

IntArg(n) == [type |-> "integer", text |-> <<>>, num |-> n]

BoolArg(b) == [type |-> "boolean", text |-> <<>>, num |-> IF b THEN 1 ELSE 0]

ArrArg(t) == [type |-> "array", text |-> t, num |-> 0]

\* the Python value behind an argument; True and False are the integers 1
\* and 0
py(a) == IF a.type \in {"integer", "boolean"} THEN a.num ELSE a.text

\* arguments.get(key, default)
get(args, key, default) ==
    IF args[key].type = "absent" THEN default ELSE py(args[key])

Tool(n, props, required) ==
    [name |-> n, properties |-> props, required |-> required]

\* the tools of handle_list_tools with the inputSchema of each
handle_list_tools ==
    << Tool("generate_image",
            [prompt |-> "string", style |-> "string", size |-> "string",
             steps |-> "integer"],
            {"prompt"}),
       Tool("enhance_prompt",
            [basic_prompt |-> "string", style_preference |-> "string"],
            {"basic_prompt"}),
       Tool("create_social_post",
            [theme |-> "string", platform |-> "string", tone |-> "string",
             include_hashtags |-> "boolean"],
            {"theme", "platform"}),
       Tool("schedule_content",
            [content_id |-> "string", schedule_time |-> "string",
             platforms |-> "array"],
            {"content_id", "schedule_time", "platforms"}),
       Tool("get_content_calendar",
            [date_range |-> "string"],
            {}),
       Tool("brand_assets",
            [image_path |-> "string", template |-> "string",
             add_logo |-> "boolean"],
            {"image_path"}),
       Tool("analyze_content_performance",
            [time_period |-> "string", metric |-> "string"],
            {}) >>

ListedNames == {handle_list_tools[i].name : i \in 1..Len(handle_list_tools)}

schema(name) ==
    handle_list_tools[CHOOSE i \in 1..Len(handle_list_tools) :
                          handle_list_tools[i].name = name]

\* names a client may send that no tool has
OtherNames == {"delete_post"}

\* a branch list that has lost its last elif
RoutedNames_without_analyze ==
    {"generate_image", "enhance_prompt", "create_social_post",
     "schedule_content", "get_content_calendar", "brand_assets"}

\* the names of the if/elif chain of handle_call_tool
RoutedNames ==
    {"generate_image", "enhance_prompt", "create_social_post",
     "schedule_content", "get_content_calendar", "brand_assets",
     "analyze_content_performance"}

\* a create_social_post branch that reads platform with arguments.get
subscripted_get_platform(name) ==
    CASE name = "generate_image" -> {"prompt"}
      [] name = "enhance_prompt" -> {"basic_prompt"}
      [] name = "create_social_post" -> {"theme"}
      [] name = "schedule_content" ->
             {"content_id", "schedule_time", "platforms"}
      [] name = "brand_assets" -> {"image_path"}
      [] OTHER -> {}

\* the keys a branch reads as arguments["key"]; the others are read with
\* arguments.get
subscripted(name) ==
    CASE name = "generate_image" -> {"prompt"}
      [] name = "enhance_prompt" -> {"basic_prompt"}
      [] name = "create_social_post" -> {"theme", "platform"}
      [] name = "schedule_content" ->
             {"content_id", "schedule_time", "platforms"}
      [] name = "brand_assets" -> {"image_path"}
      [] OTHER -> {}

\* arguments["key"] raises KeyError for a key that is not in the dict
KeyErrorIn(name, args) ==
    \E k \in subscripted(name) : args[k].type = "absent"

\* the arguments dicts of the calls: every key present or not, the steps of
\* generate_image also as the JSON value true
Arguments(name) ==
    CASE name = "generate_image" ->
             [prompt : {Absent, StrArg(<<"robot">>)},
              style : {Absent, StrArg(<<"cartoon">>)},
              size : {Absent, StrArg(<<"1", "x", "1">>), StrArg(<<"x">>)},
              steps : {Absent, IntArg(20), BoolArg(TRUE)}]
      [] name = "enhance_prompt" ->
             [basic_prompt : {Absent, StrArg(<<"robot">>)},
              style_preference : {Absent, StrArg(<<"cartoon">>)}]
      [] name = "create_social_post" ->
             [theme : {Absent, StrArg(<<"launch">>)},
              platform : {Absent, StrArg(<<"instagram">>)},
              tone : {Absent, StrArg(<<"professional">>), StrArg(<<"casual">>)},
              include_hashtags : {Absent, BoolArg(FALSE)}]
      [] name = "schedule_content" ->
             [content_id : {Absent, StrArg(<<"c1">>)},
              schedule_time : {Absent, StrArg(<<"noon">>)},
              platforms : {Absent, ArrArg(<<"instagram">>)}]
      [] name = "get_content_calendar" ->
             [date_range : {Absent, StrArg(<<"this_month">>)}]
      [] name = "brand_assets" ->
             [image_path : {Absent, StrArg(<<"a.png">>)},
              template : {Absent, StrArg(<<"bold">>)},
              add_logo : {Absent, BoolArg(FALSE)}]
      [] name = "analyze_content_performance" ->
             [time_period : {Absent, StrArg(<<"month">>)},
              metric : {Absent, StrArg(<<"reach">>)}]
      [] OTHER -> [prompt : {Absent, StrArg(<<"robot">>)}]

\* scheduler, design_comp and caption_gen are awaited and return or raise
CollaboratorOutcomes == {"ok", "raise"}

TextContent == [type |-> "text"]

ImageContent == [type |-> "image"]

\* a tool call reaches the server; its handler starts when the loop is free
Arrive ==
    /\ inbox + calls < MaxCalls
    /\ inbox' = inbox + 1
    /\ UNCHANGED <<pipeline, device, pc, req, prompt, dims, call, outcome,
                   files, loads_since_release, calls, batch, dispatch, generating,
                   list_requests>>

\* a list_tools request reaches the server
ArriveListTools ==
    /\ list_requests < MaxListRequests
    /\ list_requests' = list_requests + 1
    /\ UNCHANGED <<pipeline, device, pc, req, prompt, dims, call, outcome,
                   files, loads_since_release, calls, batch, dispatch, inbox,
                   generating>>

\* the event loop, when no handler occupies it, runs handle_list_tools for a
\* waiting request; the handler returns the tool list without an await
HandleListTools ==
    /\ pc = "idle"
    /\ list_requests > 0
    /\ list_requests' = list_requests - 1
    /\ UNCHANGED <<pipeline, device, pc, req, prompt, dims, call, outcome,
                   files, loads_since_release, calls, batch, dispatch, inbox,
                   generating>>

\* the event loop starts the handler of a waiting tool call
StartHandler ==
    /\ CanCall
    /\ inbox > 0
    /\ inbox' = inbox - 1
    /\ calls' = calls + 1
    /\ UNCHANGED <<batch, list_requests>>

Dispatched(name, args, reached) ==
    [NoDispatch EXCEPT !.name = name, !.args = args, !.reached = reached]

\* the handler is over without a generate call: it returned its content
\* parts or raised
Finish(name, args, reached, kind, exc, response) ==
    /\ dispatch' = [Dispatched(name, args, reached) EXCEPT
                        !.phase = "finished", !.kind = kind, !.exc = exc,
                        !.response = response]
    /\ call' = NewCall("handle_call_tool")
    /\ pc' = "done"
    /\ UNCHANGED <<pipeline, device, req, prompt, dims, outcome, files,
                   loads_since_release, generating>>

\* the handler awaits image_gen.generate(...)
AwaitGenerate(name, args, r) ==
    /\ dispatch' = [Dispatched(name, args, {"image_gen.generate"}) EXCEPT
                        !.phase = "generate"]
    /\ generating' = generating + 1
    /\ GenerateEntry(r)

\* if name == "generate_image": result = await image_gen.generate(...)
CallGenerateImage ==
    /\ StartHandler
    /\ \E args \in Arguments("generate_image") :
          IF KeyErrorIn("generate_image", args)
          THEN Finish("generate_image", args, {}, "raise", "KeyError", <<>>)
          ELSE AwaitGenerate("generate_image", args,
                   [prompt |-> py(args.prompt),
                    style |-> get(args, "style", <<>>),
                    size |-> get(args, "size", default_image_size),
                    steps |-> get(args, "steps", 30),
                    guidance_scale |-> 7,
                    enhance_prompt |-> TRUE])

\* generate has returned or raised: the two content parts are returned, or
\* the exception goes on to the caller of the handler
GenerateImageReturn ==
    /\ pc = "done"
    /\ dispatch.phase = "generate"
    /\ dispatch.name = "generate_image"
    /\ dispatch' =
           IF outcome.kind = "raise"
           THEN [dispatch EXCEPT !.phase = "finished", !.kind = "raise",
                                 !.exc = outcome.exc]
           ELSE [dispatch EXCEPT !.phase = "finished", !.kind = "return",
                                 !.response = <<TextContent, ImageContent>>]
    /\ generating' = generating - 1
    /\ UNCHANGED <<pipeline, device, pc, req, prompt, dims, call, outcome,
                   files, loads_since_release, calls, batch, inbox,
                   list_requests>>

\* elif name == "enhance_prompt": enhanced = await image_gen.enhance_prompt(...)
CallEnhancePrompt ==
    /\ StartHandler
    /\ \E args \in Arguments("enhance_prompt"), svc \in ServiceOutcomes :
          IF KeyErrorIn("enhance_prompt", args)
          THEN Finish("enhance_prompt", args, {}, "raise", "KeyError", <<>>)
          ELSE LET e == enhance_prompt(py(args.basic_prompt),
                                       get(args, "style_preference", <<>>),
                                       svc)
               IN  IF e.raised
                   THEN Finish("enhance_prompt", args,
                               {"image_gen.enhance_prompt"},
                               "raise", "Exception", <<>>)
                   ELSE Finish("enhance_prompt", args,
                               {"image_gen.enhance_prompt"},
                               "return", "none", <<TextContent>>)

\* elif name == "create_social_post": post = await create_complete_post(...),
\* which starts with image_gen.generate(prompt=f"{theme} content for
\* {platform}", style="professional" if tone == "professional" else "creative")
CallCreateSocialPost ==
    /\ StartHandler
    /\ \E args \in Arguments("create_social_post") :
          IF KeyErrorIn("create_social_post", args)
          THEN Finish("create_social_post", args, {}, "raise", "KeyError", <<>>)
          ELSE AwaitGenerate("create_social_post", args,
                   [prompt |-> get(args, "theme", <<>>)
                                   \o <<" content for ">>
                                   \o get(args, "platform", <<>>),
                    style |-> IF get(args, "tone", <<"professional">>)
                                     = <<"professional">>
                              THEN <<"professional">> ELSE <<"creative">>,
                    size |-> default_image_size,
                    steps |-> 30,
                    guidance_scale |-> 7,
                    enhance_prompt |-> TRUE])

\* the rest of create_complete_post: caption = await caption_gen.generate(...),
\* then the post goes back to the handler, which returns two content parts
CreatePostCaption ==
    /\ pc = "done"
    /\ dispatch.phase = "generate"
    /\ dispatch.name = "create_social_post"
    /\ IF outcome.kind = "raise"
       THEN dispatch' = [dispatch EXCEPT !.phase = "finished",
                                         !.kind = "raise",
                                         !.exc = outcome.exc]
       ELSE \E out \in CollaboratorOutcomes :
               dispatch' =
                   IF out = "raise"
                   THEN [dispatch EXCEPT
                             !.phase = "finished", !.kind = "raise",
                             !.exc = "Exception",
                             !.reached = @ \cup {"caption_gen.generate"}]
                   ELSE [dispatch EXCEPT
                             !.phase = "finished", !.kind = "return",
                             !.reached = @ \cup {"caption_gen.generate"},
                             !.response = <<TextContent, ImageContent>>]
    /\ generating' = generating - 1
    /\ UNCHANGED <<pipeline, device, pc, req, prompt, dims, call, outcome,
                   files, loads_since_release, calls, batch, inbox,
                   list_requests>>

\* a branch that awaits one collaborator and returns one text part
CallCollaborator(name, collaborator, outcomes) ==
    /\ StartHandler
    /\ \E args \in Arguments(name), out \in outcomes :
          IF KeyErrorIn(name, args)
          THEN Finish(name, args, {}, "raise", "KeyError", <<>>)
          ELSE IF out = "raise"
               THEN Finish(name, args, {collaborator},
                           "raise", "Exception", <<>>)
               ELSE Finish(name, args, {collaborator},
                           "return", "none", <<TextContent>>)

\* elif name == "schedule_content": result = await scheduler.schedule(...)
CallScheduleContent ==
    CallCollaborator("schedule_content", "scheduler.schedule",
                     CollaboratorOutcomes)

\* elif name == "get_content_calendar": await scheduler.get_calendar(...)
CallGetContentCalendar ==
    CallCollaborator("get_content_calendar", "scheduler.get_calendar",
                     CollaboratorOutcomes)

\* elif name == "brand_assets": await design_comp.apply_branding(...)
CallBrandAssets ==
    CallCollaborator("brand_assets", "design_comp.apply_branding",
                     CollaboratorOutcomes)

\* elif name == "analyze_content_performance": analyze_performance only
\* formats a string
CallAnalyzeContentPerformance ==
    CallCollaborator("analyze_content_performance", "analyze_performance",
                     {"ok"})

\* the exception of the else branch
UnknownTool == "ValueError: Unknown tool"

\* else: raise ValueError(f"Unknown tool: {name}")
CallUnknownTool ==
    /\ StartHandler
    /\ \E name \in (ListedNames \cup OtherNames) \ RoutedNames :
          \E args \in Arguments(name) :
              Finish(name, args, {}, "raise", UnknownTool, <<>>)

\* ---------------------------------------------------- the specifications
GenerateSteps ==
    \/ GenerateLoad
    \/ GenerateEnhance
    \/ GenerateStyle
    \/ GenerateParse
    \/ GenerateRunOk
    \/ GenerateRunOOM
    \/ GenerateRunFail
    \/ GenerateSave
    \/ GenerateEncode
    \/ Return

Next ==
    \/ LoadModelCall
    \/ UnloadModelCall
    \/ EnhancePromptCall
    \/ GenerateCall
    \/ GenerateBatchCall
    \/ BatchAppend
    \/ GenerateSteps

Spec == Init /\ [][Next]_vars

\* one generate call on a fresh generator, over every size string
NextSized ==
    \/ GenerateSized
    \/ GenerateSteps

SpecSized == Init /\ [][NextSized]_vars

\* the server: tool calls arrive and their handlers run on the event loop
NextServer ==
    \/ Arrive
    \/ ArriveListTools
    \/ HandleListTools
    \/ CallGenerateImage
    \/ GenerateImageReturn
    \/ CallEnhancePrompt
    \/ CallCreateSocialPost
    \/ CreatePostCaption
    \/ CallScheduleContent
    \/ CallGetContentCalendar
    \/ CallBrandAssets
    \/ CallAnalyzeContentPerformance
    \/ CallUnknownTool
    \/ GenerateLoad
    \/ GenerateEnhance
    \/ GenerateParse
    \/ GenerateRunOk
    \/ GenerateRunOOM
    \/ GenerateRunFail
    \/ GenerateSave
    \/ GenerateEncode
    \/ Return

SpecServer == Init /\ [][NextServer]_vars

\* ------------------------------------------------------------ properties
\* C1: load_model is idempotent.  As long as unload_model is not called, at
\* most one pipeline load is performed: a handle that is set has been loaded
\* exactly once since the last release, and a load_model or generate call
\* that finds the handle set performs no load and leaves the handle as it
\* found it.
C1_LoadIdempotent ==
    /\ Loaded => loads_since_release = 1
    /\ ~Loaded => loads_since_release = 0
    /\ (call.op \in {"load_model", "generate"} /\ call.entry # "None") =>
           (call.loads = 0 /\ pipeline = call.entry)

\* a generate call that found the model loaded has returned a result
C1_Witness ==
    /\ pc = "done"
    /\ call.op = "generate"
    /\ call.entry = "on_device"
    /\ outcome.kind = "return"

\* C2: the handle goes from set to None only in an unload_model call,
\* whatever generate, generate_batch and enhance_prompt calls do and however
\* they end.
C2_UnloadOnlyOnRelease ==
    [][(Loaded /\ pipeline' = "None") => call'.op = "unload_model"]_vars

\* a batch item has failed with memory exhaustion and the model is still loaded
C2_Witness ==
    /\ pc = "done"
    /\ batch.active
    /\ outcome.kind = "raise"
    /\ outcome.exc = "OutOfMemoryError"
    /\ call.entry # "None"
    /\ Loaded

\* C3: unload_model always returns normally and leaves the handle None; on a
\* handle that is already None it changes nothing and does not call
\* empty_cache, so a second release in a row has no effect.
C3_ReleaseIdempotent ==
    [][(pc = "idle" /\ call'.op = "unload_model") =>
          /\ pipeline' = "None"
          /\ outcome'.kind = "return"
          /\ pipeline = "None" =>
                /\ call'.clears = 0
                /\ UNCHANGED <<pipeline, device, files, loads_since_release>>]_vars

\* unload_model has been called on a cuda generator whose handle was None
C3_Witness ==
    /\ pc = "done"
    /\ call.op = "unload_model"
    /\ call.entry = "None"
    /\ device = "cuda"
    /\ calls > 1
    /\ outcome.kind = "return"

\* a size string of the form <width>x<height>: two decimal integers, each
\* with an optional sign, around one "x"
DecimalChars == {"0", "1", "2", "3", "4", "5", "6", "7", "8", "9"}

IsIntLiteral(t) ==
    \/ Len(t) >= 1 /\ \A i \in 1..Len(t) : t[i] \in DecimalChars
    \/ Len(t) >= 2 /\ t[1] = "-" /\ \A i \in 2..Len(t) : t[i] \in DecimalChars

WellFormedSize(s) ==
    \E i \in 1..Len(s) :
        /\ s[i] = "x"
        /\ IsIntLiteral(SubSeq(s, 1, i - 1))
        /\ IsIntLiteral(SubSeq(s, i + 1, Len(s)))

\* the call in flight has not reached the pipeline and ends, if it has ended,
\* with the error of the size parse (or of a model load that failed before it)
RejectedBeforeInference ==
    /\ call.runs = 0
    /\ call.saves = 0
    /\ pc \notin {"run", "save", "encode", "append"}
    /\ pc = "done" =>
          /\ outcome.kind = "raise"
          /\ outcome.exc \in {"ValueError", "LoadError"}

\* C4 as claimed: every size string that is not of the form <width>x<height>
\* makes generate raise before the pipeline is run, with nothing persisted or
\* returned.
C4_Original ==
    (call.op = "generate" /\ ~WellFormedSize(req.size)) =>
        RejectedBeforeInference

\* C4, amended: every non-empty size string that is not of the form
\* <width>x<height> makes generate raise before the pipeline is run, with
\* nothing persisted or returned; the empty size string is replaced by
\* settings.default_image_size, and the pipeline is run at 1024x1024.
C4_MalformedSizeRejected ==
    /\ (call.op = "generate" /\ req.size # <<>> /\ ~WellFormedSize(req.size))
           => RejectedBeforeInference
    /\ (call.op = "generate" /\ req.size = <<>> /\ call.runs > 0)
           => (call.run_args.width = 1024 /\ call.run_args.height = 1024)

\* generate has raised ValueError for a size with a separator too many
C4_Witness ==
    /\ pc = "done"
    /\ call.op = "generate"
    /\ req.size = <<"1", "x", "1", "x">>
    /\ outcome.kind = "raise"
    /\ outcome.exc = "ValueError"
    /\ call.runs = 0

\* C5: a generate call with a malformed size string does no expensive work:
\* it does not load the model (the handle stays as the call found it) and
\* does not call the text service.  Stated here for the non-empty malformed
\* strings, which the code does reject.
C5_NoWorkBeforeRejection ==
    (call.op = "generate" /\ req.size # <<>> /\ ~WellFormedSize(req.size)) =>
        /\ call.loads = 0
        /\ pipeline = call.entry
        /\ call.enhancer_calls = 0

\* C6: the width and height given to the pipeline are both positive.
C6_PositiveDimensions ==
    call.runs > 0 => (call.run_args.width > 0 /\ call.run_args.height > 0)

\* t is the prompt p followed by the fixed qualifiers
IsFallbackOf(p, t) ==
    /\ Len(t) > 0
    /\ Len(t) = Len(p) + Len(Qualifiers)
    /\ SubSeq(t, 1, Len(p)) = p
    /\ SubSeq(t, Len(p) + 1, Len(t)) = Qualifiers

\* C7: when the text service fails in any way, enhance_prompt returns
\* normally and its result is the original prompt followed by the fixed
\* qualifiers, hence non-empty; inside generate the failure does not end the
\* call and that text becomes the working prompt.
C7_EnhanceFallback ==
    /\ (call.op = "enhance_prompt" /\ pc = "done"
            /\ call.service \in ServiceFailures) =>
           (outcome.kind = "return" /\ IsFallbackOf(req.prompt, outcome.text))
    /\ (call.op = "generate" /\ call.service \in ServiceFailures) =>
           IsFallbackOf(req.prompt, prompt)

\* enhance_prompt has returned although the response was malformed
C7_Witness ==
    /\ pc = "done"
    /\ call.op = "enhance_prompt"
    /\ call.service = "malformed"
    /\ req.prompt # <<>>
    /\ outcome.kind = "return"
    /\ outcome.text # <<>>

\* C8: whatever the text service does, enhance_prompt returns a non-empty
\* prompt, and a generate call with enhance_prompt set and a non-empty
\* prompt never gives the pipeline an empty prompt.
C8_PromptNeverEmpty ==
    /\ (call.op = "enhance_prompt" /\ pc = "done") =>
           (outcome.kind = "return" /\ outcome.text # <<>>)
    /\ (call.op = "generate" /\ req.enhance_prompt /\ req.prompt # <<>>
            /\ call.runs > 0) =>
           call.run_args.prompt # <<>>

\* C9: no call retries: the text service is called at most once and the
\* pipeline at most once per call, and once the pipeline has failed the call
\* has ended with that error.
C9_NoRetry ==
    /\ call.enhancer_calls <= 1
    /\ call.runs <= 1
    /\ call.run_result \in {"OutOfMemoryError", "Exception"} =>
          /\ pc = "done"
          /\ outcome.kind = "raise"
          /\ outcome.exc = call.run_result
          /\ call.runs = 1

\* a generate call whose enhancement fell back and whose pipeline run then
\* failed has ended
C9_Witness ==
    /\ pc = "done"
    /\ call.op = "generate"
    /\ call.service \in ServiceFailures
    /\ call.enhancer_calls = 1
    /\ call.run_result = "Exception"
    /\ call.runs = 1

\* C10: when the pipeline run fails with memory exhaustion, empty_cache has
\* been called by the time the caller has the error, and the error is the
\* out-of-memory error, not the one of a generic failure.
C10_OOMClearsCache ==
    /\ call.run_result = "OutOfMemoryError" =>
          /\ call.clears >= 1
          /\ pc = "done"
          /\ outcome.kind = "raise"
          /\ outcome.exc = "OutOfMemoryError"
    /\ call.run_result = "Exception" => outcome.exc # "OutOfMemoryError"

\* a generate call on a cuda device has raised the out-of-memory error
C10_Witness ==
    /\ pc = "done"
    /\ call.op = "generate"
    /\ device = "cuda"
    /\ call.run_result = "OutOfMemoryError"
    /\ outcome.exc = "OutOfMemoryError"
    /\ call.clears = 1
    /\ Loaded


\* a failure of the pipeline call, of the file write or of the encoding that
\* is not an out-of-memory error
GenericFailure ==
    \/ call.run_result = "Exception"
    \/ call.failed \in {"save", "encode"}

\* C11: when the pipeline call, the file write or the encoding of a generate
\* call fails with anything but an out-of-memory error, the call ends by
\* raising that exception and hands no result to its caller
C11_FailureRaisesNoResult ==
    (call.op = "generate" /\ GenericFailure) =>
        /\ pc = "done"
        /\ outcome.kind = "raise"
        /\ outcome.exc = "Exception"
        /\ outcome.result = NoResult
        /\ outcome.results = <<>>

C11_Witness ==
    /\ pc = "done"
    /\ call.op = "generate"
    /\ call.run_result = "ok"
    /\ call.saves = 1
    /\ call.failed = "encode"
    /\ outcome.kind = "raise"


\* the prompt the pipeline is to get, as the request and the enhancer's
\* answer determine it
ResolvedPrompt ==
    IF req.enhance_prompt THEN call.enhancer_out
    ELSE IF req.style # <<>>
         THEN req.prompt \o <<", ">> \o req.style \o <<" style">>
         ELSE req.prompt

\* C12: from the size parse on, a generate call works with the resolved
\* prompt: with enhancement requested the enhancer was called exactly once,
\* with the request's prompt and style, and its answer is the prompt;
\* otherwise the enhancer was not called and the prompt is
\* "<prompt>, <style> style" when a style was given and the request's prompt
\* when none was. The pipeline is called with that prompt and the result's
\* prompt field is the prompt the pipeline was called with
C12_PromptResolution ==
    (call.op = "generate" /\ (pc \in {"parse", "run", "save", "encode", "append"}
                              \/ call.runs > 0)) =>
        /\ prompt = ResolvedPrompt
        /\ IF req.enhance_prompt
           THEN /\ call.enhancer_calls = 1
                /\ call.enhancer_args = <<req.prompt, req.style>>
           ELSE call.enhancer_calls = 0
        /\ call.runs > 0 => call.run_args.prompt = ResolvedPrompt
        /\ outcome.result # NoResult =>
               outcome.result.prompt = call.run_args.prompt

C12_Witness ==
    /\ pc = "done"
    /\ call.op = "generate"
    /\ ~req.enhance_prompt
    /\ req.prompt = <<"robot">>
    /\ req.style = <<"cartoon">>
    /\ outcome.kind = "return"
    /\ outcome.result.prompt = <<"robot", ", ", "cartoon", " style">>


\* C13: generate_batch works through its prompts in the order given, one
\* generate call at a time: while item i is in progress the results of
\* exactly the items before it are in the list, result k comes from prompt k,
\* and the list that is returned has one result for every prompt
C13_BatchInOrder ==
    batch.active =>
        /\ pc # "done" =>
               /\ batch.i \in 1..Len(batch.prompts)
               /\ req.prompt = batch.prompts[batch.i]
               /\ Len(batch.results) = batch.i - 1
        /\ ~req.enhance_prompt =>
               \A k \in 1..Len(batch.results) :
                   batch.results[k].prompt = batch.prompts[k]
        /\ (pc = "done" /\ outcome.kind = "return") =>
               /\ outcome.results = batch.results
               /\ Len(outcome.results) = Len(batch.prompts)

C13_Witness ==
    /\ batch.active
    /\ pc = "done"
    /\ outcome.kind = "return"
    /\ ~req.enhance_prompt
    /\ batch.prompts = << <<"robot">>, <<>> >>
    /\ Len(outcome.results) = 2
    /\ outcome.results[1].prompt = <<"robot">>
    /\ outcome.results[2].prompt = <<>>


\* the items of the batch that generate was called for
ProcessedItems ==
    IF outcome.kind = "return" THEN Len(batch.prompts) ELSE batch.i

\* C14: where a device cache exists (cuda), a generate_batch call that has
\* ended, by returning its list or by the exception of a failing item, has
\* cleared the cache exactly once for every item it processed, the failing
\* item included
C14_ClearPerItem ==
    (batch.active /\ pc = "done" /\ device = "cuda") =>
        batch.clears + call.clears = ProcessedItems


\* C15: generate_batch stops at the first item whose generate call raises:
\* an item is started only by the call itself or after the item before it
\* has returned its result, a raised exception ends the whole call, and the
\* call that ended so hands no list to its caller and holds the results of
\* the items before the failing one only
C15_BatchAbortsOnFailure ==
    [][/\ (batch.active /\ batch'.active /\ batch'.i # batch.i) =>
              /\ pc = "append"
              /\ outcome.kind = "return"
              /\ batch'.i = batch.i + 1
       /\ (batch.active /\ outcome.kind = "raise") => ~batch'.active
       /\ (batch'.active /\ outcome'.kind = "raise") =>
              /\ pc' = "done"
              /\ outcome'.results = <<>>
              /\ outcome'.result = NoResult
              /\ Len(batch'.results) = batch'.i - 1
              /\ call'.op = "generate"]_vars

C15_Witness ==
    /\ batch.active
    /\ pc = "done"
    /\ outcome.kind = "raise"
    /\ outcome.exc = "Exception"
    /\ call.run_result = "Exception"
    /\ batch.i = 1
    /\ Len(batch.prompts) = 2


\* the handler raised before it called anything: no collaborator was
\* reached, the generator was not entered and the handle is as it was
RejectedBeforeRouting ==
    /\ pc = "done"
    /\ dispatch.phase = "finished"
    /\ dispatch.kind = "raise"
    /\ dispatch.reached = {}
    /\ call.op = "handle_call_tool"
    /\ call.loads = 0
    /\ call.enhancer_calls = 0
    /\ call.runs = 0
    /\ pipeline = call.entry
    /\ generating = 0

\* the arguments lack a key that the tool's inputSchema lists as required
MissingRequired ==
    /\ dispatch.name \in ListedNames
    /\ \E k \in schema(dispatch.name).required :
           dispatch.args[k].type = "absent"

\* C16: a call of a listed tool whose arguments lack a required key ends
\* with the KeyError of the missing key, raised before any collaborator is
\* called: image_gen is not entered and the pipeline handle is untouched
C16_MissingArgumentRejected ==
    MissingRequired => (RejectedBeforeRouting /\ dispatch.exc = "KeyError")

C16_Witness ==
    /\ dispatch.name = "create_social_post"
    /\ dispatch.args.theme.type = "string"
    /\ dispatch.args.platform.type = "absent"
    /\ dispatch.exc = "KeyError"
    /\ dispatch.reached = {}
    /\ Loaded

\* an argument is present with a JSON type other than the one its tool's
\* inputSchema declares
WrongType ==
    /\ dispatch.name \in ListedNames
    /\ \E k \in DOMAIN schema(dispatch.name).properties :
           dispatch.args[k].type
               \notin {"absent", schema(dispatch.name).properties[k]}

\* C17: a call with an argument of the wrong type is rejected before any
\* collaborator is called
C17_WrongTypeRejected ==
    WrongType => RejectedBeforeRouting

\* C18: a name is routed exactly if handle_list_tools lists it: a call of a
\* listed tool either fails on a missing argument key or reaches the tool's
\* collaborator, and a call of any other name ends with the ValueError of
\* the else branch, with no collaborator called and the handle untouched
C18_RoutedIffListed ==
    dispatch.phase # "none" =>
        IF dispatch.name \in ListedNames
        THEN /\ dispatch.exc # UnknownTool
             /\ KeyErrorIn(dispatch.name, dispatch.args)
                    \/ dispatch.reached # {}
        ELSE RejectedBeforeRouting /\ dispatch.exc = UnknownTool

C18_Witness ==
    /\ dispatch.name = "delete_post"
    /\ dispatch.phase = "finished"
    /\ dispatch.exc = UnknownTool
    /\ Loaded

\* C19: a handler that has called a collaborator never ends by raising:
\* whatever the collaborator did, the handler returns content parts with a
\* text part among them
C19_FailuresBecomeText ==
    (dispatch.phase = "finished" /\ dispatch.reached # {}) =>
        /\ dispatch.kind = "return"
        /\ \E i \in 1..Len(dispatch.response) :
               dispatch.response[i].type = "text"

GeneratePcs == {"load", "prompt", "parse", "run", "save", "encode"}

\* C20: the generate calls of the handlers are serialized: at most one is
\* in flight at any time, the generator works only for that one, and the
\* handler of a waiting tool call starts only when none is in flight
C20_GenerateSerialized ==
    [][/\ generating' <= 1
       /\ pc' \in GeneratePcs =>
              (generating' = 1 /\ dispatch'.phase = "generate")
       /\ inbox' < inbox => (pc = "idle" /\ generating = 0)]_vars

C20_Witness ==
    /\ pc = "run"
    /\ dispatch.name = "create_social_post"
    /\ generating = 1
    /\ inbox > 0


\* a generate_image handler is at the text service call, the pipeline call
\* or the file write
GenerationBusy ==
    /\ dispatch.name = "generate_image"
    /\ dispatch.phase = "generate"
    /\ pc \in {"prompt", "run", "save"}

\* C21: while a generate_image call is at the text service, the pipeline or
\* the file write, a list_tools request that is waiting can be answered
\* then and there, before the generation ends
C21_ListToolsNotFrozen ==
    (GenerationBusy /\ list_requests > 0) => ENABLED HandleListTools


\* a generate call has returned its result dict
GenerateSucceeded ==
    /\ call.op = "generate"
    /\ outcome.kind = "return"
    /\ pc = "append" \/ (pc = "done" /\ ~batch.active)

\* C22: every successful generate call returns one result dict whose size
\* is the width and the height that the request's size string resolves to,
\* written as "<width>x<height>", whose steps and guidance scale are the
\* request's, whose image path names the one file the call wrote and whose
\* image data is not empty; after the call the handle holds a pipeline
C22_SuccessfulResult ==
    GenerateSucceeded =>
        LET r == outcome.result
            t == get_image_size_tuple(req.size)
        IN  /\ ~t.raised
            /\ r.size = int_str(t.width) \o <<"x">> \o int_str(t.height)
            /\ call.run_args.width = t.width
            /\ call.run_args.height = t.height
            /\ r.steps = req.steps
            /\ r.guidance_scale = req.guidance_scale
            /\ call.saves = 1
            /\ r.image_path = files
            /\ r.image_path > 0
            /\ r.image_data # <<>>
            /\ Loaded

C22_Witness ==
    /\ GenerateSucceeded
    /\ pc = "done"
    /\ req.size = <<"1", "x", "1">>
    /\ req.steps = 20
    /\ ~req.enhance_prompt
    /\ outcome.result.size = <<"1", "x", "1">>
    /\ outcome.result.steps = 20
    /\ outcome.result.image_path = 1
    /\ call.entry = "None"
    /\ pipeline = "on_device"

\* C24: a load that failed, in load_model or at the start of generate, at
\* from_pretrained, at an enable_* option or at .to(device), leaves the
\* handle None, so that the next load_model or generate loads again
C24_FailedLoadLeavesUnloaded ==
    [][(outcome'.exc = "LoadError" /\ outcome.exc # "LoadError") =>
           pipeline' = "None"]_vars


====
